---- MODULE Spec2Model ----
(***************************************************************************)
(* A model of the multilingual support-query handler (src/code.py):        *)
(* language detection, the Groq completion client with its retry and       *)
(* model-fallback loop, translation with its confidence heuristic, the     *)
(* query pipeline and the session metrics.                                 *)
(*                                                                         *)
(* Text is a sequence of Unicode code points (Python's str), so that the   *)
(* regular-expression ranges, strip(), split(), lower(), upper(), slicing  *)
(* and the substring tests of the source are computed, not assumed.        *)
(* Confidence values are whole numbers in the source (80.0, 90.0, 95.0,    *)
(* 100.0, minus 15) and are kept as integers.                              *)
(*                                                                         *)
(* Outside the model: the Groq service and langdetect (what they answer is *)
(* an input of the step that asks), the printing, the request headers and  *)
(* sampling parameters.  Of the command loop of main() the model keeps     *)
(* what the pipeline and the metrics see: its queries are the calls of     *)
(* process_query, its 'metrics' command the calls of show_summary, the     *)
(* time it waits for a line lets the clock run, and an exception that      *)
(* leaves process_query is caught there and the loop goes on.  A response  *)
(* body is of the endpoint's contract or not: one that is no JSON or has   *)
(* another shape makes the code that reads it raise.  The clock is in      *)
(* whole seconds; the time of a query passes when it returns.              *)
(***************************************************************************)
EXTENDS Naturals, Sequences, FiniteSets

VARIABLES
  pc,                  \* position of the single thread of control
  probe,               \* what the model-listing request of startup meets
  json_decode_error,   \* the class of what response.json() raises in the requests installed
  ACTIVE_MODEL,        \* the module-level ACTIVE_MODEL
  overwritten,         \* history: the loop of call_groq_api has assigned ACTIVE_MODEL
  payload,             \* call_groq_api: the payload of the call (model, max_tokens, messages)
  attempt,             \* call_groq_api: the loop variable
  requests,            \* the requests the call has posted, in order
  responses,           \* what each of them met, in order
  returned,            \* call_groq_api has returned
  call_result,         \* ... this text
  raised,              \* the exception that left call_groq_api, "" when none did
  user_input,          \* process_query / translate_to_english: the text
  lang_code,           \* its language code
  lang_name,           \* the display name of lang_code
  english_translation, \* translate_to_english: the text returned
  confidence,          \* translate_to_english: the confidence returned
  support_response,    \* generate_support_response: the text returned
  start_time,          \* process_query: start_time
  now,                 \* the clock datetime.now() reads
  queries,             \* metrics.queries
  summary,             \* what show_summary displayed since the last query
  last_return          \* what the last process_query returned

vars ==
  <<pc, probe, json_decode_error, ACTIVE_MODEL, overwritten, payload, attempt,
    requests, responses, returned, call_result, raised, user_input, lang_code,
    lang_name, english_translation, confidence, support_response, start_time, now,
    queries, summary, last_return>>

(***************************************************************************)
(* Bounds of the model.                                                    *)
(***************************************************************************)
\* process_query is called at most this often in a session
MaxQueries == 2
\* the texts detect_language is checked on have at most this many code points
MaxLen == 3
\* the command loop waits for a line only while the clock is not beyond this
MaxClock == 86403

(***************************************************************************)
(* Configuration (src/code.py, lines 19-36).                               *)
(***************************************************************************)
MODEL == "llama-3.3-70b-versatile"

FALLBACK_MODELS == <<"llama3-70b-8192", "gemma2-9b-it", "mixtral-8x7b-32768">>

\* "en"
EN == <<101, 110>>
\* "ru"
RU == <<114, 117>>
\* "zh"
ZH == <<122, 104>>
\* "ko"
KO == <<107, 111>>
\* "ja"
JA == <<106, 97>>
\* "mr"
MR == <<109, 114>>
\* "hi"
HI == <<104, 105>>

\* the dict LANGUAGE_NAMES, as its (key, value) pairs
LANGUAGE_NAMES ==
  <<
    \* "en": "English"
    <<<<101, 110>>, <<69, 110, 103, 108, 105, 115, 104>>>>,
    \* "es": "Spanish"
    <<<<101, 115>>, <<83, 112, 97, 110, 105, 115, 104>>>>,
    \* "hi": "Hindi"
    <<<<104, 105>>, <<72, 105, 110, 100, 105>>>>,
    \* "mr": "Marathi"
    <<<<109, 114>>, <<77, 97, 114, 97, 116, 104, 105>>>>,
    \* "fr": "French"
    <<<<102, 114>>, <<70, 114, 101, 110, 99, 104>>>>,
    \* "de": "German"
    <<<<100, 101>>, <<71, 101, 114, 109, 97, 110>>>>,
    \* "it": "Italian"
    <<<<105, 116>>, <<73, 116, 97, 108, 105, 97, 110>>>>,
    \* "pt": "Portuguese"
    <<<<112, 116>>, <<80, 111, 114, 116, 117, 103, 117, 101, 115, 101>>>>,
    \* "ja": "Japanese"
    <<<<106, 97>>, <<74, 97, 112, 97, 110, 101, 115, 101>>>>,
    \* "ko": "Korean"
    <<<<107, 111>>, <<75, 111, 114, 101, 97, 110>>>>,
    \* "zh": "Chinese"
    <<<<122, 104>>, <<67, 104, 105, 110, 101, 115, 101>>>>,
    \* "ru": "Russian"
    <<<<114, 117>>, <<82, 117, 115, 115, 105, 97, 110>>>>,
    \* "ar": "Arabic"
    <<<<97, 114>>, <<65, 114, 97, 98, 105, 99>>>>,
    \* "bn": "Bengali"
    <<<<98, 110>>, <<66, 101, 110, 103, 97, 108, 105>>>>,
    \* "ta": "Tamil"
    <<<<116, 97>>, <<84, 97, 109, 105, 108>>>>,
    \* "te": "Telugu"
    <<<<116, 101>>, <<84, 101, 108, 117, 103, 117>>>>
  >>

(***************************************************************************)
(* The case mappings of str.lower() and str.upper(): the tables of the     *)
(* Unicode character database of the interpreter (Unicode 14.0).  An entry *)
(* <<lo, hi, step, to>> of a mapping maps the code points lo, lo + step,   *)
(* ..., hi to to, to + step, ...; a code point in no entry maps to itself. *)
(***************************************************************************)
\* the code points with a lowercase mapping of one code point
LowerRanges ==
  <<
    <<65, 90, 1, 97>>, <<192, 214, 1, 224>>, <<216, 222, 1, 248>>,
    <<256, 302, 2, 257>>, <<306, 310, 2, 307>>, <<313, 327, 2, 314>>,
    <<330, 374, 2, 331>>, <<376, 376, 1, 255>>, <<377, 381, 2, 378>>,
    <<385, 385, 1, 595>>, <<386, 388, 2, 387>>, <<390, 390, 1, 596>>,
    <<391, 391, 1, 392>>, <<393, 394, 1, 598>>, <<395, 395, 1, 396>>,
    <<398, 398, 1, 477>>, <<399, 399, 1, 601>>, <<400, 400, 1, 603>>,
    <<401, 401, 1, 402>>, <<403, 403, 1, 608>>, <<404, 404, 1, 611>>,
    <<406, 406, 1, 617>>, <<407, 407, 1, 616>>, <<408, 408, 1, 409>>,
    <<412, 412, 1, 623>>, <<413, 413, 1, 626>>, <<415, 415, 1, 629>>,
    <<416, 420, 2, 417>>, <<422, 422, 1, 640>>, <<423, 423, 1, 424>>,
    <<425, 425, 1, 643>>, <<428, 428, 1, 429>>, <<430, 430, 1, 648>>,
    <<431, 431, 1, 432>>, <<433, 434, 1, 650>>, <<435, 437, 2, 436>>,
    <<439, 439, 1, 658>>, <<440, 440, 1, 441>>, <<444, 444, 1, 445>>,
    <<452, 452, 1, 454>>, <<453, 453, 1, 454>>, <<455, 455, 1, 457>>,
    <<456, 456, 1, 457>>, <<458, 458, 1, 460>>, <<459, 475, 2, 460>>,
    <<478, 494, 2, 479>>, <<497, 497, 1, 499>>, <<498, 500, 2, 499>>,
    <<502, 502, 1, 405>>, <<503, 503, 1, 447>>, <<504, 542, 2, 505>>,
    <<544, 544, 1, 414>>, <<546, 562, 2, 547>>, <<570, 570, 1, 11365>>,
    <<571, 571, 1, 572>>, <<573, 573, 1, 410>>, <<574, 574, 1, 11366>>,
    <<577, 577, 1, 578>>, <<579, 579, 1, 384>>, <<580, 580, 1, 649>>,
    <<581, 581, 1, 652>>, <<582, 590, 2, 583>>, <<880, 882, 2, 881>>,
    <<886, 886, 1, 887>>, <<895, 895, 1, 1011>>, <<902, 902, 1, 940>>,
    <<904, 906, 1, 941>>, <<908, 908, 1, 972>>, <<910, 911, 1, 973>>,
    <<913, 929, 1, 945>>, <<931, 939, 1, 963>>, <<975, 975, 1, 983>>,
    <<984, 1006, 2, 985>>, <<1012, 1012, 1, 952>>, <<1015, 1015, 1, 1016>>,
    <<1017, 1017, 1, 1010>>, <<1018, 1018, 1, 1019>>, <<1021, 1023, 1, 891>>,
    <<1024, 1039, 1, 1104>>, <<1040, 1071, 1, 1072>>, <<1120, 1152, 2, 1121>>,
    <<1162, 1214, 2, 1163>>, <<1216, 1216, 1, 1231>>, <<1217, 1229, 2, 1218>>,
    <<1232, 1326, 2, 1233>>, <<1329, 1366, 1, 1377>>, <<4256, 4293, 1, 11520>>,
    <<4295, 4295, 1, 11559>>, <<4301, 4301, 1, 11565>>, <<5024, 5103, 1, 43888>>,
    <<5104, 5109, 1, 5112>>, <<7312, 7354, 1, 4304>>, <<7357, 7359, 1, 4349>>,
    <<7680, 7828, 2, 7681>>, <<7838, 7838, 1, 223>>, <<7840, 7934, 2, 7841>>,
    <<7944, 7951, 1, 7936>>, <<7960, 7965, 1, 7952>>, <<7976, 7983, 1, 7968>>,
    <<7992, 7999, 1, 7984>>, <<8008, 8013, 1, 8000>>, <<8025, 8031, 2, 8017>>,
    <<8040, 8047, 1, 8032>>, <<8072, 8079, 1, 8064>>, <<8088, 8095, 1, 8080>>,
    <<8104, 8111, 1, 8096>>, <<8120, 8121, 1, 8112>>, <<8122, 8123, 1, 8048>>,
    <<8124, 8124, 1, 8115>>, <<8136, 8139, 1, 8050>>, <<8140, 8140, 1, 8131>>,
    <<8152, 8153, 1, 8144>>, <<8154, 8155, 1, 8054>>, <<8168, 8169, 1, 8160>>,
    <<8170, 8171, 1, 8058>>, <<8172, 8172, 1, 8165>>, <<8184, 8185, 1, 8056>>,
    <<8186, 8187, 1, 8060>>, <<8188, 8188, 1, 8179>>, <<8486, 8486, 1, 969>>,
    <<8490, 8490, 1, 107>>, <<8491, 8491, 1, 229>>, <<8498, 8498, 1, 8526>>,
    <<8544, 8559, 1, 8560>>, <<8579, 8579, 1, 8580>>, <<9398, 9423, 1, 9424>>,
    <<11264, 11311, 1, 11312>>, <<11360, 11360, 1, 11361>>, <<11362, 11362, 1, 619>>,
    <<11363, 11363, 1, 7549>>, <<11364, 11364, 1, 637>>, <<11367, 11371, 2, 11368>>,
    <<11373, 11373, 1, 593>>, <<11374, 11374, 1, 625>>, <<11375, 11375, 1, 592>>,
    <<11376, 11376, 1, 594>>, <<11378, 11378, 1, 11379>>, <<11381, 11381, 1, 11382>>,
    <<11390, 11391, 1, 575>>, <<11392, 11490, 2, 11393>>, <<11499, 11501, 2, 11500>>,
    <<11506, 11506, 1, 11507>>, <<42560, 42604, 2, 42561>>, <<42624, 42650, 2, 42625>>,
    <<42786, 42798, 2, 42787>>, <<42802, 42862, 2, 42803>>, <<42873, 42875, 2, 42874>>,
    <<42877, 42877, 1, 7545>>, <<42878, 42886, 2, 42879>>, <<42891, 42891, 1, 42892>>,
    <<42893, 42893, 1, 613>>, <<42896, 42898, 2, 42897>>, <<42902, 42920, 2, 42903>>,
    <<42922, 42922, 1, 614>>, <<42923, 42923, 1, 604>>, <<42924, 42924, 1, 609>>,
    <<42925, 42925, 1, 620>>, <<42926, 42926, 1, 618>>, <<42928, 42928, 1, 670>>,
    <<42929, 42929, 1, 647>>, <<42930, 42930, 1, 669>>, <<42931, 42931, 1, 43859>>,
    <<42932, 42946, 2, 42933>>, <<42948, 42948, 1, 42900>>, <<42949, 42949, 1, 642>>,
    <<42950, 42950, 1, 7566>>, <<42951, 42953, 2, 42952>>, <<42960, 42960, 1, 42961>>,
    <<42966, 42968, 2, 42967>>, <<42997, 42997, 1, 42998>>, <<65313, 65338, 1, 65345>>,
    <<66560, 66599, 1, 66600>>, <<66736, 66771, 1, 66776>>, <<66928, 66964, 2, 66967>>,
    <<66929, 66938, 1, 66968>>, <<66941, 66954, 1, 66980>>, <<66957, 66962, 1, 66996>>,
    <<66965, 66965, 1, 67004>>, <<68736, 68786, 1, 68800>>, <<71840, 71871, 1, 71872>>,
    <<93760, 93791, 1, 93792>>, <<125184, 125217, 1, 125218>>
  >>

\* the one code point whose lowercase mapping is longer: U+0130, to 'i' and U+0307
LowerSpecial ==
  <<
    <<304, <<105, 775>>>>
  >>

\* the code points with an uppercase mapping of one code point
UpperRanges ==
  <<
    <<97, 122, 1, 65>>, <<181, 181, 1, 924>>, <<224, 246, 1, 192>>,
    <<248, 254, 1, 216>>, <<255, 255, 1, 376>>, <<257, 303, 2, 256>>,
    <<305, 305, 1, 73>>, <<307, 311, 2, 306>>, <<314, 328, 2, 313>>,
    <<331, 375, 2, 330>>, <<378, 382, 2, 377>>, <<383, 383, 1, 83>>,
    <<384, 384, 1, 579>>, <<387, 389, 2, 386>>, <<392, 392, 1, 391>>,
    <<396, 396, 1, 395>>, <<402, 402, 1, 401>>, <<405, 405, 1, 502>>,
    <<409, 409, 1, 408>>, <<410, 410, 1, 573>>, <<414, 414, 1, 544>>,
    <<417, 421, 2, 416>>, <<424, 424, 1, 423>>, <<429, 429, 1, 428>>,
    <<432, 432, 1, 431>>, <<436, 438, 2, 435>>, <<441, 441, 1, 440>>,
    <<445, 445, 1, 444>>, <<447, 447, 1, 503>>, <<453, 453, 1, 452>>,
    <<454, 454, 1, 452>>, <<456, 456, 1, 455>>, <<457, 457, 1, 455>>,
    <<459, 459, 1, 458>>, <<460, 460, 1, 458>>, <<462, 476, 2, 461>>,
    <<477, 477, 1, 398>>, <<479, 495, 2, 478>>, <<498, 498, 1, 497>>,
    <<499, 499, 1, 497>>, <<501, 501, 1, 500>>, <<505, 543, 2, 504>>,
    <<547, 563, 2, 546>>, <<572, 572, 1, 571>>, <<575, 576, 1, 11390>>,
    <<578, 578, 1, 577>>, <<583, 591, 2, 582>>, <<592, 592, 1, 11375>>,
    <<593, 593, 1, 11373>>, <<594, 594, 1, 11376>>, <<595, 595, 1, 385>>,
    <<596, 596, 1, 390>>, <<598, 599, 1, 393>>, <<601, 601, 1, 399>>,
    <<603, 603, 1, 400>>, <<604, 604, 1, 42923>>, <<608, 608, 1, 403>>,
    <<609, 609, 1, 42924>>, <<611, 611, 1, 404>>, <<613, 613, 1, 42893>>,
    <<614, 614, 1, 42922>>, <<616, 616, 1, 407>>, <<617, 617, 1, 406>>,
    <<618, 618, 1, 42926>>, <<619, 619, 1, 11362>>, <<620, 620, 1, 42925>>,
    <<623, 623, 1, 412>>, <<625, 625, 1, 11374>>, <<626, 626, 1, 413>>,
    <<629, 629, 1, 415>>, <<637, 637, 1, 11364>>, <<640, 640, 1, 422>>,
    <<642, 642, 1, 42949>>, <<643, 643, 1, 425>>, <<647, 647, 1, 42929>>,
    <<648, 648, 1, 430>>, <<649, 649, 1, 580>>, <<650, 651, 1, 433>>,
    <<652, 652, 1, 581>>, <<658, 658, 1, 439>>, <<669, 669, 1, 42930>>,
    <<670, 670, 1, 42928>>, <<837, 837, 1, 921>>, <<881, 883, 2, 880>>,
    <<887, 887, 1, 886>>, <<891, 893, 1, 1021>>, <<940, 940, 1, 902>>,
    <<941, 943, 1, 904>>, <<945, 961, 1, 913>>, <<962, 962, 1, 931>>,
    <<963, 971, 1, 931>>, <<972, 972, 1, 908>>, <<973, 974, 1, 910>>,
    <<976, 976, 1, 914>>, <<977, 977, 1, 920>>, <<981, 981, 1, 934>>,
    <<982, 982, 1, 928>>, <<983, 983, 1, 975>>, <<985, 1007, 2, 984>>,
    <<1008, 1008, 1, 922>>, <<1009, 1009, 1, 929>>, <<1010, 1010, 1, 1017>>,
    <<1011, 1011, 1, 895>>, <<1013, 1013, 1, 917>>, <<1016, 1016, 1, 1015>>,
    <<1019, 1019, 1, 1018>>, <<1072, 1103, 1, 1040>>, <<1104, 1119, 1, 1024>>,
    <<1121, 1153, 2, 1120>>, <<1163, 1215, 2, 1162>>, <<1218, 1230, 2, 1217>>,
    <<1231, 1231, 1, 1216>>, <<1233, 1327, 2, 1232>>, <<1377, 1414, 1, 1329>>,
    <<4304, 4346, 1, 7312>>, <<4349, 4351, 1, 7357>>, <<5112, 5117, 1, 5104>>,
    <<7296, 7296, 1, 1042>>, <<7297, 7297, 1, 1044>>, <<7298, 7298, 1, 1054>>,
    <<7299, 7300, 1, 1057>>, <<7301, 7301, 1, 1058>>, <<7302, 7302, 1, 1066>>,
    <<7303, 7303, 1, 1122>>, <<7304, 7304, 1, 42570>>, <<7545, 7545, 1, 42877>>,
    <<7549, 7549, 1, 11363>>, <<7566, 7566, 1, 42950>>, <<7681, 7829, 2, 7680>>,
    <<7835, 7835, 1, 7776>>, <<7841, 7935, 2, 7840>>, <<7936, 7943, 1, 7944>>,
    <<7952, 7957, 1, 7960>>, <<7968, 7975, 1, 7976>>, <<7984, 7991, 1, 7992>>,
    <<8000, 8005, 1, 8008>>, <<8017, 8023, 2, 8025>>, <<8032, 8039, 1, 8040>>,
    <<8048, 8049, 1, 8122>>, <<8050, 8053, 1, 8136>>, <<8054, 8055, 1, 8154>>,
    <<8056, 8057, 1, 8184>>, <<8058, 8059, 1, 8170>>, <<8060, 8061, 1, 8186>>,
    <<8112, 8113, 1, 8120>>, <<8126, 8126, 1, 921>>, <<8144, 8145, 1, 8152>>,
    <<8160, 8161, 1, 8168>>, <<8165, 8165, 1, 8172>>, <<8526, 8526, 1, 8498>>,
    <<8560, 8575, 1, 8544>>, <<8580, 8580, 1, 8579>>, <<9424, 9449, 1, 9398>>,
    <<11312, 11359, 1, 11264>>, <<11361, 11361, 1, 11360>>, <<11365, 11365, 1, 570>>,
    <<11366, 11366, 1, 574>>, <<11368, 11372, 2, 11367>>, <<11379, 11379, 1, 11378>>,
    <<11382, 11382, 1, 11381>>, <<11393, 11491, 2, 11392>>, <<11500, 11502, 2, 11499>>,
    <<11507, 11507, 1, 11506>>, <<11520, 11557, 1, 4256>>, <<11559, 11559, 1, 4295>>,
    <<11565, 11565, 1, 4301>>, <<42561, 42605, 2, 42560>>, <<42625, 42651, 2, 42624>>,
    <<42787, 42799, 2, 42786>>, <<42803, 42863, 2, 42802>>, <<42874, 42876, 2, 42873>>,
    <<42879, 42887, 2, 42878>>, <<42892, 42892, 1, 42891>>, <<42897, 42899, 2, 42896>>,
    <<42900, 42900, 1, 42948>>, <<42903, 42921, 2, 42902>>, <<42933, 42947, 2, 42932>>,
    <<42952, 42954, 2, 42951>>, <<42961, 42961, 1, 42960>>, <<42967, 42969, 2, 42966>>,
    <<42998, 42998, 1, 42997>>, <<43859, 43859, 1, 42931>>, <<43888, 43967, 1, 5024>>,
    <<65345, 65370, 1, 65313>>, <<66600, 66639, 1, 66560>>, <<66776, 66811, 1, 66736>>,
    <<66967, 67003, 2, 66928>>, <<66968, 66977, 1, 66929>>, <<66980, 66993, 1, 66941>>,
    <<66996, 67001, 1, 66957>>, <<67004, 67004, 1, 66965>>, <<68800, 68850, 1, 68736>>,
    <<71872, 71903, 1, 71840>>, <<93792, 93823, 1, 93760>>,
    <<125218, 125251, 1, 125184>>
  >>

\* the code points whose uppercase mapping is longer, each with its mapping
UpperSpecial ==
  <<
    <<223, <<83, 83>>>>, <<329, <<700, 78>>>>, <<496, <<74, 780>>>>,
    <<912, <<921, 776, 769>>>>, <<944, <<933, 776, 769>>>>, <<1415, <<1333, 1362>>>>,
    <<7830, <<72, 817>>>>, <<7831, <<84, 776>>>>, <<7832, <<87, 778>>>>,
    <<7833, <<89, 778>>>>, <<7834, <<65, 702>>>>, <<8016, <<933, 787>>>>,
    <<8018, <<933, 787, 768>>>>, <<8020, <<933, 787, 769>>>>,
    <<8022, <<933, 787, 834>>>>, <<8064, <<7944, 921>>>>, <<8065, <<7945, 921>>>>,
    <<8066, <<7946, 921>>>>, <<8067, <<7947, 921>>>>, <<8068, <<7948, 921>>>>,
    <<8069, <<7949, 921>>>>, <<8070, <<7950, 921>>>>, <<8071, <<7951, 921>>>>,
    <<8072, <<7944, 921>>>>, <<8073, <<7945, 921>>>>, <<8074, <<7946, 921>>>>,
    <<8075, <<7947, 921>>>>, <<8076, <<7948, 921>>>>, <<8077, <<7949, 921>>>>,
    <<8078, <<7950, 921>>>>, <<8079, <<7951, 921>>>>, <<8080, <<7976, 921>>>>,
    <<8081, <<7977, 921>>>>, <<8082, <<7978, 921>>>>, <<8083, <<7979, 921>>>>,
    <<8084, <<7980, 921>>>>, <<8085, <<7981, 921>>>>, <<8086, <<7982, 921>>>>,
    <<8087, <<7983, 921>>>>, <<8088, <<7976, 921>>>>, <<8089, <<7977, 921>>>>,
    <<8090, <<7978, 921>>>>, <<8091, <<7979, 921>>>>, <<8092, <<7980, 921>>>>,
    <<8093, <<7981, 921>>>>, <<8094, <<7982, 921>>>>, <<8095, <<7983, 921>>>>,
    <<8096, <<8040, 921>>>>, <<8097, <<8041, 921>>>>, <<8098, <<8042, 921>>>>,
    <<8099, <<8043, 921>>>>, <<8100, <<8044, 921>>>>, <<8101, <<8045, 921>>>>,
    <<8102, <<8046, 921>>>>, <<8103, <<8047, 921>>>>, <<8104, <<8040, 921>>>>,
    <<8105, <<8041, 921>>>>, <<8106, <<8042, 921>>>>, <<8107, <<8043, 921>>>>,
    <<8108, <<8044, 921>>>>, <<8109, <<8045, 921>>>>, <<8110, <<8046, 921>>>>,
    <<8111, <<8047, 921>>>>, <<8114, <<8122, 921>>>>, <<8115, <<913, 921>>>>,
    <<8116, <<902, 921>>>>, <<8118, <<913, 834>>>>, <<8119, <<913, 834, 921>>>>,
    <<8124, <<913, 921>>>>, <<8130, <<8138, 921>>>>, <<8131, <<919, 921>>>>,
    <<8132, <<905, 921>>>>, <<8134, <<919, 834>>>>, <<8135, <<919, 834, 921>>>>,
    <<8140, <<919, 921>>>>, <<8146, <<921, 776, 768>>>>, <<8147, <<921, 776, 769>>>>,
    <<8150, <<921, 834>>>>, <<8151, <<921, 776, 834>>>>, <<8162, <<933, 776, 768>>>>,
    <<8163, <<933, 776, 769>>>>, <<8164, <<929, 787>>>>, <<8166, <<933, 834>>>>,
    <<8167, <<933, 776, 834>>>>, <<8178, <<8186, 921>>>>, <<8179, <<937, 921>>>>,
    <<8180, <<911, 921>>>>, <<8182, <<937, 834>>>>, <<8183, <<937, 834, 921>>>>,
    <<8188, <<937, 921>>>>, <<64256, <<70, 70>>>>, <<64257, <<70, 73>>>>,
    <<64258, <<70, 76>>>>, <<64259, <<70, 70, 73>>>>, <<64260, <<70, 70, 76>>>>,
    <<64261, <<83, 84>>>>, <<64262, <<83, 84>>>>, <<64275, <<1348, 1350>>>>,
    <<64276, <<1348, 1333>>>>, <<64277, <<1348, 1339>>>>, <<64278, <<1358, 1350>>>>,
    <<64279, <<1348, 1341>>>>
  >>

\* the property Case_Ignorable, as the runs <<first, last>> of its code points
CaseIgnorableRanges ==
  <<
    <<39, 39>>, <<46, 46>>, <<58, 58>>, <<94, 94>>, <<96, 96>>, <<168, 168>>,
    <<173, 173>>, <<175, 175>>, <<180, 180>>, <<183, 184>>, <<688, 879>>, <<884, 885>>,
    <<890, 890>>, <<900, 901>>, <<903, 903>>, <<1155, 1161>>, <<1369, 1369>>,
    <<1375, 1375>>, <<1425, 1469>>, <<1471, 1471>>, <<1473, 1474>>, <<1476, 1477>>,
    <<1479, 1479>>, <<1524, 1524>>, <<1536, 1541>>, <<1552, 1562>>, <<1564, 1564>>,
    <<1600, 1600>>, <<1611, 1631>>, <<1648, 1648>>, <<1750, 1757>>, <<1759, 1768>>,
    <<1770, 1773>>, <<1807, 1807>>, <<1809, 1809>>, <<1840, 1866>>, <<1958, 1968>>,
    <<2027, 2037>>, <<2042, 2042>>, <<2045, 2045>>, <<2070, 2093>>, <<2137, 2139>>,
    <<2184, 2184>>, <<2192, 2193>>, <<2200, 2207>>, <<2249, 2306>>, <<2362, 2362>>,
    <<2364, 2364>>, <<2369, 2376>>, <<2381, 2381>>, <<2385, 2391>>, <<2402, 2403>>,
    <<2417, 2417>>, <<2433, 2433>>, <<2492, 2492>>, <<2497, 2500>>, <<2509, 2509>>,
    <<2530, 2531>>, <<2558, 2558>>, <<2561, 2562>>, <<2620, 2620>>, <<2625, 2626>>,
    <<2631, 2632>>, <<2635, 2637>>, <<2641, 2641>>, <<2672, 2673>>, <<2677, 2677>>,
    <<2689, 2690>>, <<2748, 2748>>, <<2753, 2757>>, <<2759, 2760>>, <<2765, 2765>>,
    <<2786, 2787>>, <<2810, 2815>>, <<2817, 2817>>, <<2876, 2876>>, <<2879, 2879>>,
    <<2881, 2884>>, <<2893, 2893>>, <<2901, 2902>>, <<2914, 2915>>, <<2946, 2946>>,
    <<3008, 3008>>, <<3021, 3021>>, <<3072, 3072>>, <<3076, 3076>>, <<3132, 3132>>,
    <<3134, 3136>>, <<3142, 3144>>, <<3146, 3149>>, <<3157, 3158>>, <<3170, 3171>>,
    <<3201, 3201>>, <<3260, 3260>>, <<3263, 3263>>, <<3270, 3270>>, <<3276, 3277>>,
    <<3298, 3299>>, <<3328, 3329>>, <<3387, 3388>>, <<3393, 3396>>, <<3405, 3405>>,
    <<3426, 3427>>, <<3457, 3457>>, <<3530, 3530>>, <<3538, 3540>>, <<3542, 3542>>,
    <<3633, 3633>>, <<3636, 3642>>, <<3654, 3662>>, <<3761, 3761>>, <<3764, 3772>>,
    <<3782, 3782>>, <<3784, 3789>>, <<3864, 3865>>, <<3893, 3893>>, <<3895, 3895>>,
    <<3897, 3897>>, <<3953, 3966>>, <<3968, 3972>>, <<3974, 3975>>, <<3981, 3991>>,
    <<3993, 4028>>, <<4038, 4038>>, <<4141, 4144>>, <<4146, 4151>>, <<4153, 4154>>,
    <<4157, 4158>>, <<4184, 4185>>, <<4190, 4192>>, <<4209, 4212>>, <<4226, 4226>>,
    <<4229, 4230>>, <<4237, 4237>>, <<4253, 4253>>, <<4348, 4348>>, <<4957, 4959>>,
    <<5906, 5908>>, <<5938, 5939>>, <<5970, 5971>>, <<6002, 6003>>, <<6068, 6069>>,
    <<6071, 6077>>, <<6086, 6086>>, <<6089, 6099>>, <<6103, 6103>>, <<6109, 6109>>,
    <<6155, 6159>>, <<6211, 6211>>, <<6277, 6278>>, <<6313, 6313>>, <<6432, 6434>>,
    <<6439, 6440>>, <<6450, 6450>>, <<6457, 6459>>, <<6679, 6680>>, <<6683, 6683>>,
    <<6742, 6742>>, <<6744, 6750>>, <<6752, 6752>>, <<6754, 6754>>, <<6757, 6764>>,
    <<6771, 6780>>, <<6783, 6783>>, <<6823, 6823>>, <<6832, 6862>>, <<6912, 6915>>,
    <<6964, 6964>>, <<6966, 6970>>, <<6972, 6972>>, <<6978, 6978>>, <<7019, 7027>>,
    <<7040, 7041>>, <<7074, 7077>>, <<7080, 7081>>, <<7083, 7085>>, <<7142, 7142>>,
    <<7144, 7145>>, <<7149, 7149>>, <<7151, 7153>>, <<7212, 7219>>, <<7222, 7223>>,
    <<7288, 7293>>, <<7376, 7378>>, <<7380, 7392>>, <<7394, 7400>>, <<7405, 7405>>,
    <<7412, 7412>>, <<7416, 7417>>, <<7468, 7530>>, <<7544, 7544>>, <<7579, 7679>>,
    <<8125, 8125>>, <<8127, 8129>>, <<8141, 8143>>, <<8157, 8159>>, <<8173, 8175>>,
    <<8189, 8190>>, <<8203, 8207>>, <<8216, 8217>>, <<8228, 8228>>, <<8231, 8231>>,
    <<8234, 8238>>, <<8288, 8292>>, <<8294, 8303>>, <<8305, 8305>>, <<8319, 8319>>,
    <<8336, 8348>>, <<8400, 8432>>, <<11388, 11389>>, <<11503, 11505>>,
    <<11631, 11631>>, <<11647, 11647>>, <<11744, 11775>>, <<11823, 11823>>,
    <<12293, 12293>>, <<12330, 12333>>, <<12337, 12341>>, <<12347, 12347>>,
    <<12441, 12446>>, <<12540, 12542>>, <<40981, 40981>>, <<42232, 42237>>,
    <<42508, 42508>>, <<42607, 42610>>, <<42612, 42621>>, <<42623, 42623>>,
    <<42652, 42655>>, <<42736, 42737>>, <<42752, 42785>>, <<42864, 42864>>,
    <<42888, 42890>>, <<42994, 42996>>, <<43000, 43001>>, <<43010, 43010>>,
    <<43014, 43014>>, <<43019, 43019>>, <<43045, 43046>>, <<43052, 43052>>,
    <<43204, 43205>>, <<43232, 43249>>, <<43263, 43263>>, <<43302, 43309>>,
    <<43335, 43345>>, <<43392, 43394>>, <<43443, 43443>>, <<43446, 43449>>,
    <<43452, 43453>>, <<43471, 43471>>, <<43493, 43494>>, <<43561, 43566>>,
    <<43569, 43570>>, <<43573, 43574>>, <<43587, 43587>>, <<43596, 43596>>,
    <<43632, 43632>>, <<43644, 43644>>, <<43696, 43696>>, <<43698, 43700>>,
    <<43703, 43704>>, <<43710, 43711>>, <<43713, 43713>>, <<43741, 43741>>,
    <<43756, 43757>>, <<43763, 43764>>, <<43766, 43766>>, <<43867, 43871>>,
    <<43881, 43883>>, <<44005, 44005>>, <<44008, 44008>>, <<44013, 44013>>,
    <<64286, 64286>>, <<64434, 64450>>, <<65024, 65039>>, <<65043, 65043>>,
    <<65056, 65071>>, <<65106, 65106>>, <<65109, 65109>>, <<65279, 65279>>,
    <<65287, 65287>>, <<65294, 65294>>, <<65306, 65306>>, <<65342, 65342>>,
    <<65344, 65344>>, <<65392, 65392>>, <<65438, 65439>>, <<65507, 65507>>,
    <<65529, 65531>>, <<66045, 66045>>, <<66272, 66272>>, <<66422, 66426>>,
    <<67456, 67461>>, <<67463, 67504>>, <<67506, 67514>>, <<68097, 68099>>,
    <<68101, 68102>>, <<68108, 68111>>, <<68152, 68154>>, <<68159, 68159>>,
    <<68325, 68326>>, <<68900, 68903>>, <<69291, 69292>>, <<69446, 69456>>,
    <<69506, 69509>>, <<69633, 69633>>, <<69688, 69702>>, <<69744, 69744>>,
    <<69747, 69748>>, <<69759, 69761>>, <<69811, 69814>>, <<69817, 69818>>,
    <<69821, 69821>>, <<69826, 69826>>, <<69837, 69837>>, <<69888, 69890>>,
    <<69927, 69931>>, <<69933, 69940>>, <<70003, 70003>>, <<70016, 70017>>,
    <<70070, 70078>>, <<70089, 70092>>, <<70095, 70095>>, <<70191, 70193>>,
    <<70196, 70196>>, <<70198, 70199>>, <<70206, 70206>>, <<70367, 70367>>,
    <<70371, 70378>>, <<70400, 70401>>, <<70459, 70460>>, <<70464, 70464>>,
    <<70502, 70508>>, <<70512, 70516>>, <<70712, 70719>>, <<70722, 70724>>,
    <<70726, 70726>>, <<70750, 70750>>, <<70835, 70840>>, <<70842, 70842>>,
    <<70847, 70848>>, <<70850, 70851>>, <<71090, 71093>>, <<71100, 71101>>,
    <<71103, 71104>>, <<71132, 71133>>, <<71219, 71226>>, <<71229, 71229>>,
    <<71231, 71232>>, <<71339, 71339>>, <<71341, 71341>>, <<71344, 71349>>,
    <<71351, 71351>>, <<71453, 71455>>, <<71458, 71461>>, <<71463, 71467>>,
    <<71727, 71735>>, <<71737, 71738>>, <<71995, 71996>>, <<71998, 71998>>,
    <<72003, 72003>>, <<72148, 72151>>, <<72154, 72155>>, <<72160, 72160>>,
    <<72193, 72202>>, <<72243, 72248>>, <<72251, 72254>>, <<72263, 72263>>,
    <<72273, 72278>>, <<72281, 72283>>, <<72330, 72342>>, <<72344, 72345>>,
    <<72752, 72758>>, <<72760, 72765>>, <<72767, 72767>>, <<72850, 72871>>,
    <<72874, 72880>>, <<72882, 72883>>, <<72885, 72886>>, <<73009, 73014>>,
    <<73018, 73018>>, <<73020, 73021>>, <<73023, 73029>>, <<73031, 73031>>,
    <<73104, 73105>>, <<73109, 73109>>, <<73111, 73111>>, <<73459, 73460>>,
    <<78896, 78904>>, <<92912, 92916>>, <<92976, 92982>>, <<92992, 92995>>,
    <<94031, 94031>>, <<94095, 94111>>, <<94176, 94177>>, <<94179, 94180>>,
    <<110576, 110579>>, <<110581, 110587>>, <<110589, 110590>>, <<113821, 113822>>,
    <<113824, 113827>>, <<118528, 118573>>, <<118576, 118598>>, <<119143, 119145>>,
    <<119155, 119170>>, <<119173, 119179>>, <<119210, 119213>>, <<119362, 119364>>,
    <<121344, 121398>>, <<121403, 121452>>, <<121461, 121461>>, <<121476, 121476>>,
    <<121499, 121503>>, <<121505, 121519>>, <<122880, 122886>>, <<122888, 122904>>,
    <<122907, 122913>>, <<122915, 122916>>, <<122918, 122922>>, <<123184, 123197>>,
    <<123566, 123566>>, <<123628, 123631>>, <<125136, 125142>>, <<125252, 125259>>,
    <<127995, 127999>>, <<917505, 917505>>, <<917536, 917631>>, <<917760, 917999>>
  >>

\* the property Cased, as the runs <<first, last>> of its code points
CasedRanges ==
  <<
    <<65, 90>>, <<97, 122>>, <<170, 170>>, <<181, 181>>, <<186, 186>>, <<192, 214>>,
    <<216, 246>>, <<248, 442>>, <<444, 447>>, <<452, 659>>, <<661, 696>>, <<704, 705>>,
    <<736, 740>>, <<837, 837>>, <<880, 883>>, <<886, 887>>, <<890, 893>>, <<895, 895>>,
    <<902, 902>>, <<904, 906>>, <<908, 908>>, <<910, 929>>, <<931, 1013>>,
    <<1015, 1153>>, <<1162, 1327>>, <<1329, 1366>>, <<1376, 1416>>, <<4256, 4293>>,
    <<4295, 4295>>, <<4301, 4301>>, <<4304, 4346>>, <<4349, 4351>>, <<5024, 5109>>,
    <<5112, 5117>>, <<7296, 7304>>, <<7312, 7354>>, <<7357, 7359>>, <<7424, 7615>>,
    <<7680, 7957>>, <<7960, 7965>>, <<7968, 8005>>, <<8008, 8013>>, <<8016, 8023>>,
    <<8025, 8025>>, <<8027, 8027>>, <<8029, 8029>>, <<8031, 8061>>, <<8064, 8116>>,
    <<8118, 8124>>, <<8126, 8126>>, <<8130, 8132>>, <<8134, 8140>>, <<8144, 8147>>,
    <<8150, 8155>>, <<8160, 8172>>, <<8178, 8180>>, <<8182, 8188>>, <<8305, 8305>>,
    <<8319, 8319>>, <<8336, 8348>>, <<8450, 8450>>, <<8455, 8455>>, <<8458, 8467>>,
    <<8469, 8469>>, <<8473, 8477>>, <<8484, 8484>>, <<8486, 8486>>, <<8488, 8488>>,
    <<8490, 8493>>, <<8495, 8500>>, <<8505, 8505>>, <<8508, 8511>>, <<8517, 8521>>,
    <<8526, 8526>>, <<8544, 8575>>, <<8579, 8580>>, <<9398, 9449>>, <<11264, 11492>>,
    <<11499, 11502>>, <<11506, 11507>>, <<11520, 11557>>, <<11559, 11559>>,
    <<11565, 11565>>, <<42560, 42605>>, <<42624, 42653>>, <<42786, 42887>>,
    <<42891, 42894>>, <<42896, 42954>>, <<42960, 42961>>, <<42963, 42963>>,
    <<42965, 42969>>, <<42997, 42998>>, <<43000, 43002>>, <<43824, 43866>>,
    <<43868, 43880>>, <<43888, 43967>>, <<64256, 64262>>, <<64275, 64279>>,
    <<65313, 65338>>, <<65345, 65370>>, <<66560, 66639>>, <<66736, 66771>>,
    <<66776, 66811>>, <<66928, 66938>>, <<66940, 66954>>, <<66956, 66962>>,
    <<66964, 66965>>, <<66967, 66977>>, <<66979, 66993>>, <<66995, 67001>>,
    <<67003, 67004>>, <<67456, 67456>>, <<67459, 67461>>, <<67463, 67504>>,
    <<67506, 67514>>, <<68736, 68786>>, <<68800, 68850>>, <<71840, 71903>>,
    <<93760, 93823>>, <<119808, 119892>>, <<119894, 119964>>, <<119966, 119967>>,
    <<119970, 119970>>, <<119973, 119974>>, <<119977, 119980>>, <<119982, 119993>>,
    <<119995, 119995>>, <<119997, 120003>>, <<120005, 120069>>, <<120071, 120074>>,
    <<120077, 120084>>, <<120086, 120092>>, <<120094, 120121>>, <<120123, 120126>>,
    <<120128, 120132>>, <<120134, 120134>>, <<120138, 120144>>, <<120146, 120485>>,
    <<120488, 120512>>, <<120514, 120538>>, <<120540, 120570>>, <<120572, 120596>>,
    <<120598, 120628>>, <<120630, 120654>>, <<120656, 120686>>, <<120688, 120712>>,
    <<120714, 120744>>, <<120746, 120770>>, <<120772, 120779>>, <<122624, 122633>>,
    <<122635, 122654>>, <<125184, 125251>>, <<127280, 127305>>, <<127312, 127337>>,
    <<127344, 127369>>
  >>

(***************************************************************************)
(* Python's str operations, on sequences of code points.                   *)
(***************************************************************************)
\* the code points str.isspace() holds of: what strip() removes and split() splits at
WhitespaceChars ==
  (9..13) \cup (28..32) \cup {133, 160, 5760} \cup (8192..8202)
    \cup {8232, 8233, 8239, 8287, 12288}

IsSpace(c) == c \in WhitespaceChars

\* s.strip()
strip(s) ==
  IF \A i \in 1..Len(s) : IsSpace(s[i]) THEN <<>>
  ELSE SubSeq(s,
         CHOOSE i \in 1..Len(s) : ~IsSpace(s[i]) /\ \A j \in 1..(i - 1) : IsSpace(s[j]),
         CHOOSE i \in 1..Len(s) : ~IsSpace(s[i]) /\ \A j \in (i + 1)..Len(s) : IsSpace(s[j]))

\* len(s.split()): the maximal runs of non-whitespace
WordCount(s) ==
  Cardinality({i \in 1..Len(s) : ~IsSpace(s[i]) /\ (i = 1 \/ IsSpace(s[i - 1]))})

\* sub in s
Contains(s, sub) ==
  \E i \in 0..Len(s) : i + Len(sub) <= Len(s) /\ SubSeq(s, i + 1, i + Len(sub)) = sub

\* c is in one of the runs <<first, last>> of table
InRuns(table, c) == \E i \in 1..Len(table) : c >= table[i][1] /\ c <= table[i][2]

IsCaseIgnorable(c) == InRuns(CaseIgnorableRanges, c)

IsCased(c) == InRuns(CasedRanges, c)

\* e, an entry <<lo, hi, step, to>> of a mapping, maps c
Maps(e, c) == c >= e[1] /\ c <= e[2] /\ (c - e[1]) % e[3] = 0

\* what a mapping maps c to; its entries are in the order of their first code
\* points, so that only the first can map a c below the second's
MapOf(table, c) ==
  LET hits == IF c < table[2][1] THEN {i \in {1} : Maps(table[i], c)}
              ELSE {i \in 2..Len(table) : Maps(table[i], c)}
  IN IF hits = {} THEN c
     ELSE LET e == table[CHOOSE i \in hits : TRUE] IN e[4] + (c - e[1])

\* the longer mapping a table of pairs <<code point, mapping>> holds for c, or
\* <<>>; the pairs are in the order of their code points
SpecialOf(table, c) ==
  LET hits == IF c < table[1][1] THEN {} ELSE {i \in 1..Len(table) : table[i][1] = c}
  IN IF hits = {} THEN <<>> ELSE table[CHOOSE i \in hits : TRUE][2]

\* the capital sigma at s[i] is in the Final_Sigma context: the nearest code point
\* before it that is not case-ignorable is cased, and the nearest such after it,
\* when there is one, is not
IsFinalSigma(s, i) ==
  LET before == {j \in 1..(i - 1) : ~IsCaseIgnorable(s[j])}
      after == {j \in (i + 1)..Len(s) : ~IsCaseIgnorable(s[j])}
  IN /\ before # {}
     /\ IsCased(s[CHOOSE j \in before : \A k \in before : k <= j])
     /\ \/ after = {}
        \/ ~IsCased(s[CHOOSE j \in after : \A k \in after : j <= k])

\* what lower() puts for s[i]: the lowercase mapping, and for U+03A3 the final or
\* the other small sigma
LowerAt(s, i) ==
  IF s[i] = 931 THEN (IF IsFinalSigma(s, i) THEN <<962>> ELSE <<963>>)
  ELSE IF SpecialOf(LowerSpecial, s[i]) # <<>> THEN SpecialOf(LowerSpecial, s[i])
  ELSE <<MapOf(LowerRanges, s[i])>>

\* what upper() puts for c: the uppercase mapping
UpperOf(c) ==
  IF SpecialOf(UpperSpecial, c) # <<>> THEN SpecialOf(UpperSpecial, c)
  ELSE <<MapOf(UpperRanges, c)>>

RECURSIVE Concat(_)
\* "".join(parts)
Concat(parts) == IF parts = <<>> THEN <<>> ELSE parts[1] \o Concat(Tail(parts))

\* s.lower()
lower(s) == Concat([i \in 1..Len(s) |-> LowerAt(s, i)])

\* s.upper()
upper(s) == Concat([i \in 1..Len(s) |-> UpperOf(s[i])])

\* s[:n]
Prefix(s, n) == IF Len(s) <= n THEN s ELSE SubSeq(s, 1, n)

\* str(n) of a natural number: its decimal digits
RECURSIVE str(_)
str(n) == IF n < 10 THEN <<48 + n>> ELSE str(n \div 10) \o <<48 + (n % 10)>>

\* re.search(r"[lo-hi]", text)
SearchRange(text, lo, hi) == \E i \in 1..Len(text) : text[i] >= lo /\ text[i] <= hi

\* LANGUAGE_NAMES.get(code, code.upper())
LanguageName(code) ==
  LET hits == {i \in 1..Len(LANGUAGE_NAMES) : LANGUAGE_NAMES[i][1] = code}
  IN IF hits = {} THEN upper(code) ELSE LANGUAGE_NAMES[CHOOSE i \in hits : TRUE][2]

(***************************************************************************)
(* Language detection (detect_language).  langdetect's detect(text) is a   *)
(* library outside the repository: ld is what it does on the text, either  *)
(* [ok |-> TRUE, code |-> c] or a raised exception, [ok |-> FALSE, ...].   *)
(***************************************************************************)
\* mutant: the CJK test is made before the Cyrillic one
ScriptCode_CjkFirst(text) ==
  IF SearchRange(text, 19968, 40959) THEN ZH
  ELSE IF SearchRange(text, 1024, 1279) THEN RU
  ELSE IF SearchRange(text, 44032, 55215) THEN KO
  ELSE IF SearchRange(text, 12352, 12543) THEN JA
  ELSE <<>>

\* the script pre-checks, in the order of the source; <<>> when none matches
ScriptCode(text) ==
  IF SearchRange(text, 1024, 1279) THEN RU          \* [\u0400-\u04FF] Cyrillic
  ELSE IF SearchRange(text, 19968, 40959) THEN ZH   \* [\u4e00-\u9fff] Chinese
  ELSE IF SearchRange(text, 44032, 55215) THEN KO   \* [\uac00-\ud7af] Korean
  ELSE IF SearchRange(text, 12352, 12543) THEN JA   \* [\u3040-\u30ff] Japanese
  ELSE <<>>

\* hindi_markers: the thirteen marker words, each as its code points
hindi_markers ==
  <<<<2361, 2376>>,
    <<2361, 2376, 2306>>,
    <<2325, 2366>>,
    <<2325, 2368>>,
    <<2325, 2375>>,
    <<2350, 2375, 2306>>,
    <<2325, 2379>>,
    <<2360, 2375>>,
    <<2344, 2375>>,
    <<2324, 2352>>,
    <<2351, 2366>>,
    <<2361, 2379>>,
    <<2361, 2375>>>>

\* marathi_markers: the eight marker words, each as its code points
marathi_markers ==
  <<<<2310, 2361, 2375>>,
    <<2310, 2361, 2375, 2340>>,
    <<2330, 2381, 2351, 2366>>,
    <<2354, 2366>>,
    <<2344, 2375>>,
    <<2350, 2343, 2381, 2351, 2375>>,
    <<2310, 2339, 2367>>,
    <<2325, 2367, 2306, 2357, 2366>>>>

\* sum(1 for marker in markers if marker in text)
MarkerCount(markers, text) ==
  Cardinality({i \in 1..Len(markers) : Contains(text, markers[i])})

\* the Devanagari branch
DevanagariCode(text, ld) ==
  LET hindi_count == MarkerCount(hindi_markers, text)
      marathi_count == MarkerCount(marathi_markers, text)
  IN IF marathi_count > hindi_count /\ marathi_count > 0 THEN MR
     ELSE IF hindi_count > 0 THEN HI
     ELSE IF ld.ok /\ ld.code \in {HI, MR} THEN ld.code
     ELSE HI

detect_language(text, ld) ==
  IF strip(text) = <<>> THEN EN
  ELSE IF ScriptCode(text) # <<>> THEN ScriptCode(text)
  ELSE IF SearchRange(text, 2304, 2431) THEN DevanagariCode(text, ld)  \* [\u0900-\u097F] Devanagari
  ELSE IF ld.ok THEN ld.code
  ELSE EN


(***************************************************************************)
(* Startup: get_active_model.  p is what the model-listing request meets:  *)
(* an exception (a transport failure, a body that is not the listing) or a *)
(* response with a status and the set of model ids it lists.               *)
(***************************************************************************)
\* mutant: a response other than 200 is taken for a failed probe
get_active_model_NonOkFallsBack(p) ==
  IF p.kind = "exception" \/ p.status # 200 THEN FALLBACK_MODELS[1]
  ELSE IF MODEL \in p.available THEN MODEL
  ELSE LET present == {i \in 1..Len(FALLBACK_MODELS) : FALLBACK_MODELS[i] \in p.available}
       IN IF present = {} THEN FALLBACK_MODELS[1]
          ELSE FALLBACK_MODELS[CHOOSE i \in present : \A j \in present : i <= j]

get_active_model(p) ==
  IF p.kind = "exception" THEN FALLBACK_MODELS[1]
  ELSE IF p.status # 200 THEN MODEL
  ELSE IF MODEL \in p.available THEN MODEL
  ELSE LET present == {i \in 1..Len(FALLBACK_MODELS) : FALLBACK_MODELS[i] \in p.available}
       IN IF present = {} THEN FALLBACK_MODELS[1]
          ELSE FALLBACK_MODELS[CHOOSE i \in present : \A j \in present : i <= j]

(***************************************************************************)
(* The completion client: call_groq_api.  A response is                    *)
(*   [kind |-> "http", status, body, content, message, cause]  or          *)
(*   [kind |-> "transport", cause, ...]  (requests.post raised),           *)
(* body being the shape of what the service sent:                          *)
(*   "choices"            {"choices": [{"message": {"content": content}}]} *)
(*   "empty_choices"      {"choices": []}                                  *)
(*   "null_content"       {"choices": [{"message": {"content": null}}]}    *)
(*   "error"              {"error": {"message": message}}                  *)
(*   "error_no_message"   {"error": {}}                                    *)
(*   "error_null_message" {"error": {"message": null}}                     *)
(*   "error_string"       {"error": "..."}                                 *)
(*   "empty_object"       {}                                               *)
(*   "not_json"           no JSON: response.json() raises a                *)
(*                        JSONDecodeError whose text is cause              *)
(***************************************************************************)
\* for attempt in range(3)
MaxAttempts == 3

\* "API Error: "
API_ERROR_PREFIX == <<65, 80, 73, 32, 69, 114, 114, 111, 114, 58, 32>>
\* "Network Error: "
NETWORK_ERROR_PREFIX ==
  <<78, 101, 116, 119, 111, 114, 107, 32, 69, 114, 114, 111, 114, 58, 32>>
\* "API Error: Failed after retries"
RETRIES_EXHAUSTED ==
  <<65, 80, 73, 32, 69, 114, 114, 111, 114, 58, 32, 70, 97, 105, 108, 101,
    100, 32, 97, 102, 116, 101, 114, 32, 114, 101, 116, 114, 105, 101, 115>>
\* "decommissioned"
DECOMMISSIONED ==
  <<100, 101, 99, 111, 109, 109, 105, 115, 115, 105, 111, 110, 101, 100>>
\* "not found"
NOT_FOUND == <<110, 111, 116, 32, 102, 111, 117, 110, 100>>

\* the class of requests' JSONDecodeError: a RequestException from requests 2.27
\* on, a ValueError and no RequestException before
JsonDecodeErrorClasses == {"RequestException", "ValueError"}

\* what response.json()["choices"][0]["message"]["content"].strip() raises on the
\* body, "" when it gives the text
ContentFault(resp) ==
  CASE resp.body = "choices" -> ""
    [] resp.body = "not_json" -> "JSONDecodeError"
    [] resp.body = "empty_choices" -> "IndexError"
    [] resp.body = "null_content" -> "AttributeError"
    [] resp.body \in {"error", "error_no_message", "error_null_message",
                      "error_string", "empty_object"} -> "KeyError"

\* what the reading of the error message of a 400 raises on the body:
\* response.json(), error.get("message", "") on an error that is a string, the
\* test of a substring in a msg that is None; "" when the test is made
MessageFault(resp) ==
  CASE resp.body = "not_json" -> "JSONDecodeError"
    [] resp.body = "error_string" -> "AttributeError"
    [] resp.body = "error_null_message" -> "TypeError"
    [] resp.body \in {"error", "error_no_message", "empty_object", "choices",
                      "empty_choices", "null_content"} -> ""

\* msg = response.json().get("error", {}).get("message", "")
ErrorMessage(resp) == IF resp.body = "error" THEN resp.message ELSE <<>>

\* status 400 with "decommissioned" or "not found" in the error message
IsModelRejection(resp) ==
  /\ resp.kind = "http"
  /\ resp.status = 400
  /\ MessageFault(resp) = ""
  /\ Contains(ErrorMessage(resp), DECOMMISSIONED) \/ Contains(ErrorMessage(resp), NOT_FOUND)

\* mutant: the fallback after the rejected model, not always the first
RejectedModelReplacement_NextInList(active) ==
  LET at == {i \in 1..Len(FALLBACK_MODELS) : FALLBACK_MODELS[i] = active}
      i == IF at = {} THEN 0 ELSE CHOOSE k \in at : TRUE
  IN IF i < Len(FALLBACK_MODELS) THEN FALLBACK_MODELS[i + 1] ELSE FALLBACK_MODELS[i]

\* ACTIVE_MODEL = FALLBACK_MODELS[0], whatever model was rejected
RejectedModelReplacement(active) == FALLBACK_MODELS[1]

\* mutant: the payload keeps the model it was built with
SubstitutedPayload_Forgotten(p, active) == p

\* payload["model"] = ACTIVE_MODEL
SubstitutedPayload(p, active) == [p EXCEPT !.model = active]

\* mutant: the test is off by one, and never holds inside the loop
IsLastAttempt_OffByOne(a) == a = 3

\* if attempt == 2
IsLastAttempt(a) == a = 2

\* One iteration of the loop, for the response resp to the request posted:
\* [done: the call returns, result: with this text, active: ACTIVE_MODEL after
\* it, load: the payload after it, raised: the exception that leaves the call,
\* "" when none does].  json_error is the class of requests' JSONDecodeError.
LoopBody(active, load, a, resp, json_error) ==
  LET \* except requests.exceptions.RequestException as e
      Caught(cause) ==
        [done |-> IsLastAttempt(a),
         result |-> IF IsLastAttempt(a) THEN NETWORK_ERROR_PREFIX \o cause ELSE <<>>,
         active |-> active, load |-> load, raised |-> ""]
      \* the reading of the body raises: a RequestException is caught, another
      \* exception leaves the call
      Faulted(fault) ==
        IF fault = "JSONDecodeError" /\ json_error = "RequestException"
        THEN Caught(resp.cause)
        ELSE [done |-> FALSE, result |-> <<>>, active |-> active, load |-> load,
              raised |-> fault]
  IN IF resp.kind = "transport" THEN Caught(resp.cause)
     ELSE IF resp.status = 200
     THEN IF ContentFault(resp) = ""
          THEN [done |-> TRUE, result |-> strip(resp.content), active |-> active,
                load |-> load, raised |-> ""]
          ELSE Faulted(ContentFault(resp))
     ELSE IF resp.status = 400 /\ MessageFault(resp) # "" THEN Faulted(MessageFault(resp))
     ELSE IF IsModelRejection(resp)
     THEN LET fb == RejectedModelReplacement(active)
          IN [done |-> FALSE, result |-> <<>>, active |-> fb,
              load |-> SubstitutedPayload(load, fb), raised |-> ""]
     ELSE [done |-> TRUE, result |-> API_ERROR_PREFIX \o str(resp.status),
           active |-> active, load |-> load, raised |-> ""]

(***************************************************************************)
(* Translation and reply: translate_to_english, generate_support_response. *)
(***************************************************************************)
NoPayload ==
  [model |-> "", max_tokens |-> 0, persona |-> "", lang_name |-> <<>>, text |-> <<>>]

\* the payload of the translation call: the model, max_tokens=300, and of the two
\* messages the persona of the system one and what the user one embeds
TranslationPayload(active, name, text) ==
  [model |-> active, max_tokens |-> 300, persona |-> "translator",
   lang_name |-> name, text |-> text]

\* the payload of the reply call: max_tokens=400, the support persona, the query
SupportPayload(active, english_query) ==
  [model |-> active, max_tokens |-> 400, persona |-> "support",
   lang_name |-> <<>>, text |-> english_query]

\* "error"
ERROR == <<101, 114, 114, 111, 114>>
\* "failed"
FAILED == <<102, 97, 105, 108, 101, 100>>
\* "http"
HTTP == <<104, 116, 116, 112>>

\* mutant: the thresholds are exclusive
BaseConfidence_Exclusive(words) ==
  IF words > 6 THEN 95 ELSE IF words > 3 THEN 90 ELSE 80

\* confidence = 80.0; if words >= 3: 90.0; if words >= 6: 95.0
BaseConfidence(words) ==
  IF words >= 6 THEN 95 ELSE IF words >= 3 THEN 90 ELSE 80

\* any(x in translation.lower() for x in ["error", "failed", "http"])
IsPenalised(translation) ==
  \E x \in {ERROR, FAILED, HTTP} : Contains(lower(translation), x)

Max(a, b) == IF a >= b THEN a ELSE b

\* the confidence heuristic of translate_to_english
Confidence(translation) ==
  LET c == BaseConfidence(WordCount(translation))
  IN IF IsPenalised(translation) THEN Max(c - 15, 60) ELSE c

(***************************************************************************)
(* Metrics: TranslationMetrics.                                            *)
(***************************************************************************)
\* original_text[:100], english_translation[:100]
TruncLen == 100

\* self.queries.append({...}); timestamp is the clock at the call
log_query(qs, timestamp, original_lang, original_text, translation, conf, response_time) ==
  Append(qs, [timestamp |-> timestamp, language |-> original_lang,
              original |-> Prefix(original_text, TruncLen),
              translation |-> Prefix(translation, TruncLen),
              confidence |-> conf, response_time |-> response_time])

RECURSIVE SumOf(_, _)
\* sum(q[field] for q in qs)
SumOf(qs, field) ==
  IF qs = <<>> THEN 0 ELSE qs[1][field] + SumOf(Tail(qs), field)

\* sorted(lang_counts.items(), key=count, reverse=True): the languages by count,
\* largest first, equal counts in the order the dict first met them (the sort is
\* stable, also reversed)
LanguageDistribution(qs) ==
  LET langs == {qs[i].language : i \in 1..Len(qs)}
      count(l) == Cardinality({i \in 1..Len(qs) : qs[i].language = l})
      first(l) == CHOOSE i \in 1..Len(qs) :
                    qs[i].language = l /\ \A j \in 1..(i - 1) : qs[j].language # l
      before(a, b) == count(a) > count(b) \/ (count(a) = count(b) /\ first(a) < first(b))
      rank(l) == Cardinality({m \in langs : before(m, l)})
  IN [k \in 1..Cardinality(langs) |->
        LET l == CHOOSE m \in langs : rank(m) = k - 1 IN <<l, count(l)>>]

NoSummary ==
  [shown |-> FALSE, empty |-> TRUE, total |-> 0, duration |-> 0,
   distribution |-> <<>>, avg_conf |-> <<0, 1>>, avg_time |-> <<0, 1>>]

\* the seconds of a day: timedelta.seconds is the seconds within the day
SecondsPerDay == 86400

\* what show_summary displays at clock t; self.start_time is the clock's origin,
\* the duration is (datetime.now() - self.start_time).seconds, which leaves the
\* days out, and an average is the quotient <<sum, count>>
show_summary(qs, t) ==
  IF qs = <<>> THEN [NoSummary EXCEPT !.shown = TRUE]
  ELSE [shown |-> TRUE, empty |-> FALSE, total |-> Len(qs),
        duration |-> t % SecondsPerDay,
        distribution |-> LanguageDistribution(qs),
        avg_conf |-> <<SumOf(qs, "confidence"), Len(qs)>>,
        avg_time |-> <<SumOf(qs, "response_time"), Len(qs)>>]


(***************************************************************************)
(* The inputs the model draws from.                                        *)
(***************************************************************************)
\* the code points of the texts detect_language is checked on: a space, a letter,
\* the first and last code point of each range of the source and a neighbour
DetectAlphabet ==
  {32, 97, 1024, 1279, 1280, 19968, 40959, 44032, 55215, 12352, 12543, 2304}

BoundedTexts == UNION {[1..n -> DetectAlphabet] : n \in 0..MaxLen}

\* the demo query in Hindi (line 379): one Hindi marker
HindiQuery ==
  <<2350, 2375, 2352, 2366, 32, 2321, 2352, 2381, 2337, 2352, 32, 2325, 2361,
    2366, 2305, 32, 2361, 2376, 63>>
\* a Marathi query: marathi marker 1 (its "aahe"), hindi marker 1 (the "he" inside it)
MarathiQuery ==
  <<2350, 2366, 2333, 2366, 32, 2321, 2352, 2381, 2337, 2352, 32, 2325, 2369,
    2336, 2375, 32, 2310, 2361, 2375>>
\* a Marathi query: marathi markers 2, hindi marker 1
MarathiQuery2 ==
  <<2328, 2352, 2366, 2350, 2343, 2381, 2351, 2375, 32, 2346, 2366, 2339,
    2368, 32, 2310, 2361, 2375>>
\* Devanagari text with no marker
DevanagariPlain == <<2344, 2350, 2360, 2381, 2340, 2375>>
\* "es"
ES == <<101, 115>>
\* "xx", a code LANGUAGE_NAMES does not hold
XX == <<120, 120>>

DetectTexts ==
  BoundedTexts \cup {HindiQuery, MarathiQuery, MarathiQuery2, DevanagariPlain}

\* what langdetect's detect(text) may do
LangDetectOutcomes ==
  {[ok |-> TRUE, code |-> c] : c \in {EN, ES, HI, MR}} \cup {[ok |-> FALSE, code |-> <<>>]}

AllModels == {MODEL} \cup {FALLBACK_MODELS[i] : i \in 1..Len(FALLBACK_MODELS)}

\* what the model-listing request may meet
Probes ==
  {[kind |-> "exception", status |-> 0, available |-> {}]}
    \cup {[kind |-> "response", status |-> s, available |-> a] :
            s \in {200, 401, 500}, a \in SUBSET (AllModels \cup {"whisper-large-v3"})}

\* those a client is checked on: three that select three different models
ClientProbes ==
  {[kind |-> "exception", status |-> 0, available |-> {}],
   [kind |-> "response", status |-> 200, available |-> {MODEL, FALLBACK_MODELS[1]}],
   [kind |-> "response", status |-> 200, available |-> {FALLBACK_MODELS[2], FALLBACK_MODELS[3]}]}

\* the two a session is checked on: the preferred model listed, and a failed probe
SessionProbes ==
  {[kind |-> "exception", status |-> 0, available |-> {}],
   [kind |-> "response", status |-> 200, available |-> {MODEL, FALLBACK_MODELS[1]}]}

Ok(content) ==
  [kind |-> "http", status |-> 200, body |-> "choices", content |-> content,
   message |-> <<>>, cause |-> <<>>]

HttpError(status, message) ==
  [kind |-> "http", status |-> status, body |-> "error", content |-> <<>>,
   message |-> message, cause |-> <<>>]

TransportFailure(cause) ==
  [kind |-> "transport", status |-> 0, body |-> "", content |-> <<>>,
   message |-> <<>>, cause |-> cause]

\* a response whose body is JSON of the shape body
Shaped(status, body) ==
  [kind |-> "http", status |-> status, body |-> body, content |-> <<>>,
   message |-> <<>>, cause |-> <<>>]

\* a response whose body is no JSON
NotJson(status, cause) ==
  [kind |-> "http", status |-> status, body |-> "not_json", content |-> <<>>,
   message |-> <<>>, cause |-> cause]

\* 'The model has been decommissioned'
MsgDecommissioned ==
  <<84, 104, 101, 32, 109, 111, 100, 101, 108, 32, 104, 97, 115, 32, 98, 101,
    101, 110, 32, 100, 101, 99, 111, 109, 109, 105, 115, 115, 105, 111, 110,
    101, 100>>
\* 'model not found'
MsgNotFound ==
  <<109, 111, 100, 101, 108, 32, 110, 111, 116, 32, 102, 111, 117, 110, 100>>
\* 'Model Decommissioned'
MsgCapitals ==
  <<77, 111, 100, 101, 108, 32, 68, 101, 99, 111, 109, 109, 105, 115, 115,
    105, 111, 110, 101, 100>>
\* 'Invalid request'
MsgInvalid ==
  <<73, 110, 118, 97, 108, 105, 100, 32, 114, 101, 113, 117, 101, 115, 116>>
\* 'Read timed out'
CauseTimeout ==
  <<82, 101, 97, 100, 32, 116, 105, 109, 101, 100, 32, 111, 117, 116>>
\* 'Max retries exceeded with url: connection refused'
CauseRefused ==
  <<77, 97, 120, 32, 114, 101, 116, 114, 105, 101, 115, 32, 101, 120, 99, 101,
    101, 100, 101, 100, 32, 119, 105, 116, 104, 32, 117, 114, 108, 58, 32, 99,
    111, 110, 110, 101, 99, 116, 105, 111, 110, 32, 114, 101, 102, 117, 115,
    101, 100>>

\* 'Expecting value: line 1 column 1 (char 0)'
CauseNotJson ==
  <<69, 120, 112, 101, 99, 116, 105, 110, 103, 32, 118, 97, 108, 117, 101, 58,
    32, 108, 105, 110, 101, 32, 49, 32, 99, 111, 108, 117, 109, 110, 32, 49, 32,
    40, 99, 104, 97, 114, 32, 48, 41>>

\* '  '
Blank == <<32, 32>>
\* ' ok thanks\n'
TwoWords == <<32, 111, 107, 32, 116, 104, 97, 110, 107, 115, 10>>
\* 'Error 42'
TwoWordsError == <<69, 114, 114, 111, 114, 32, 52, 50>>
\* 'reset your password'
ThreeWords ==
  <<114, 101, 115, 101, 116, 32, 121, 111, 117, 114, 32, 112, 97, 115, 115,
    119, 111, 114, 100>>
\* 'please restart the router now'
FiveWords ==
  <<112, 108, 101, 97, 115, 101, 32, 114, 101, 115, 116, 97, 114, 116, 32,
    116, 104, 101, 32, 114, 111, 117, 116, 101, 114, 32, 110, 111, 119>>
\* 'The order FAILED to ship'
FiveWordsFailed ==
  <<84, 104, 101, 32, 111, 114, 100, 101, 114, 32, 70, 65, 73, 76, 69, 68, 32,
    116, 111, 32, 115, 104, 105, 112>>
\* 'where is my order number today'
SixWords ==
  <<119, 104, 101, 114, 101, 32, 105, 115, 32, 109, 121, 32, 111, 114, 100,
    101, 114, 32, 110, 117, 109, 98, 101, 114, 32, 116, 111, 100, 97, 121>>
\* 'please open the HTTP settings page'
SixWordsHttp ==
  <<112, 108, 101, 97, 115, 101, 32, 111, 112, 101, 110, 32, 116, 104, 101,
    32, 72, 84, 84, 80, 32, 115, 101, 116, 116, 105, 110, 103, 115, 32, 112,
    97, 103, 101>>
\* 'FA\u0130LED \u00c9RROR', whose lower() has neither "failed" nor "error"
DottedFailed == <<70, 65, 304, 76, 69, 68, 32, 201, 82, 82, 79, 82>>
\* ' Hola mundo\n'
Hola == <<32, 72, 111, 108, 97, 32, 109, 117, 110, 100, 111, 10>>

\* 104 code points, 101 of them between the first and the last that is no space
LongText ==
  <<32>> \o [i \in 1..102 |-> IF i % 6 = 0 THEN 32 ELSE 97 + (i % 3)] \o <<32>>

\* the responses a call of the client is checked on
ClientResponses ==
  {Ok(c) : c \in {Blank, TwoWords, TwoWordsError, ThreeWords, FiveWords,
                  FiveWordsFailed, SixWords, SixWordsHttp, DottedFailed}}
    \cup {HttpError(400, m) : m \in {MsgDecommissioned, MsgNotFound, MsgCapitals, MsgInvalid}}
    \cup {HttpError(404, MsgNotFound), HttpError(500, MsgDecommissioned), HttpError(201, <<>>)}
    \cup {TransportFailure(c) : c \in {CauseTimeout, CauseRefused, <<>>}}
    \cup {Shaped(200, b) : b \in {"empty_choices", "null_content", "error"}}
    \cup {Shaped(400, b) : b \in {"error_no_message", "error_null_message",
                                   "error_string", "empty_object"}}
    \cup {Shaped(500, "error_null_message")}
    \cup {NotJson(s, CauseNotJson) : s \in {200, 400, 502}}

ClientTexts == {Hola, Blank, LongText}

ClientCodes == {EN, ES, XX}

ClientQueries == {ThreeWords, <<>>}

\* the responses a session is checked on: one of each kind, their bodies JSON
SessionResponses ==
  {Ok(TwoWords), HttpError(400, MsgDecommissioned), HttpError(500, MsgInvalid),
   TransportFailure(CauseTimeout), Shaped(400, "error_null_message")}

\* no body of a session's responses fails to decode, so the class of that error
\* is never read there: one stands for both
SessionJsonDecodeErrors == {"RequestException"}

SessionTexts == {LongText, HindiQuery}

\* langdetect on these texts: English, or an exception
SessionLangDetect == {[ok |-> TRUE, code |-> EN], [ok |-> FALSE, code |-> <<>>]}

\* the seconds a query may take, to the reading of its response time
Latencies == {1}

\* the seconds from that reading to log_query's reading of the timestamp
LogDelays == {0, 1}

\* the seconds the command loop may wait for a line: a second short of a day
IdleTimes == {SecondsPerDay - 1}

NoReturn ==
  [original |-> <<>>, language |-> <<>>, english |-> <<>>, confidence |-> 0,
   response |-> <<>>, time |-> 0]

(***************************************************************************)
(* The state machine.                                                      *)
(***************************************************************************)
\* the process before ACTIVE_MODEL = get_active_model(), meeting one of probes,
\* with a requests whose JSON decoding error is of one of classes
Boot(probes, classes) ==
  /\ pc = "boot"
  /\ probe \in probes
  /\ json_decode_error \in classes
  /\ ACTIVE_MODEL = "unset"
  /\ overwritten = FALSE
  /\ payload = NoPayload
  /\ attempt = 0
  /\ requests = <<>>
  /\ responses = <<>>
  /\ returned = FALSE
  /\ call_result = <<>>
  /\ raised = ""
  /\ user_input = <<>>
  /\ lang_code = <<>>
  /\ lang_name = <<>>
  /\ english_translation = <<>>
  /\ confidence = 0
  /\ support_response = <<>>
  /\ start_time = 0
  /\ now = 0
  /\ queries = <<>>
  /\ summary = NoSummary
  /\ last_return = NoReturn

envVars == <<probe, json_decode_error>>

callVars == <<payload, attempt, requests, responses, returned, call_result, raised>>

queryVars == <<user_input, lang_code, lang_name, english_translation, confidence, support_response>>

sessionVars == <<start_time, now, queries, summary, last_return>>

\* ACTIVE_MODEL = get_active_model()
GetActiveModel ==
  /\ pc = "boot"
  /\ ACTIVE_MODEL' = get_active_model(probe)
  /\ pc' = "idle"
  /\ UNCHANGED <<envVars, overwritten, callVars, queryVars, sessionVars>>

\* call_groq_api is entered with this payload
EnterCall(load) ==
  /\ payload' = load
  /\ attempt' = 0
  /\ requests' = <<>>
  /\ responses' = <<>>
  /\ returned' = FALSE
  /\ call_result' = <<>>
  /\ raised' = ""

\* the locals of a function that has returned or raised are gone
LocalsGone ==
  /\ user_input' = <<>>
  /\ lang_code' = <<>>
  /\ lang_name' = <<>>
  /\ english_translation' = <<>>
  /\ confidence' = 0
  /\ support_response' = <<>>

\* one iteration of the loop of call_groq_api: the payload is posted and resp is
\* what comes of it; the loop ends when the iteration returns or was the last.
\* An exception the loop does not catch leaves call_groq_api and its caller,
\* translate_to_english or generate_support_response; in a query it leaves
\* process_query too, for the command loop, which reports it and goes on: the
\* query's call and locals are gone, nothing is logged and nothing returned.
Attempt(resp) ==
  /\ pc \in {"translate", "generate", "q_translate", "q_generate"}
  /\ ~returned
  /\ attempt < MaxAttempts
  /\ LET out == LoopBody(ACTIVE_MODEL, payload, attempt, resp, json_decode_error)
     IN /\ ACTIVE_MODEL' = out.active
        /\ overwritten' = (overwritten \/ IsModelRejection(resp))
        /\ IF out.raised # "" /\ pc \in {"q_translate", "q_generate"}
           THEN /\ payload' = NoPayload
                /\ attempt' = 0
                /\ requests' = <<>>
                /\ responses' = <<>>
           ELSE /\ payload' = out.load
                /\ attempt' = attempt + 1
                /\ requests' = Append(requests, payload)
                /\ responses' = Append(responses, resp)
        /\ raised' = out.raised
        /\ returned' = (out.raised = "" /\ (out.done \/ attempt + 1 = MaxAttempts))
        /\ call_result' = IF out.raised # "" THEN <<>>
                          ELSE IF out.done THEN out.result
                          ELSE IF attempt + 1 = MaxAttempts THEN RETRIES_EXHAUSTED
                          ELSE <<>>
        /\ IF out.raised = ""
           THEN UNCHANGED <<pc, queryVars>>
           ELSE pc' = "raised" /\ LocalsGone
  /\ UNCHANGED <<envVars, sessionVars>>

\* translate_to_english(text, code) is called: it returns at once for "en" and
\* enters call_groq_api otherwise
TranslateCall(text, code) ==
  /\ pc \in {"idle", "translated", "generated", "raised"}
  /\ user_input' = text
  /\ lang_code' = code
  /\ lang_name' = LanguageName(code)
  /\ support_response' = <<>>
  /\ IF code = EN
     THEN /\ english_translation' = strip(text)
          /\ confidence' = 100
          /\ EnterCall(NoPayload)
          /\ pc' = "translated"
     ELSE /\ english_translation' = <<>>
          /\ confidence' = 0
          /\ EnterCall(TranslationPayload(ACTIVE_MODEL, LanguageName(code), text))
          /\ pc' = "translate"
  /\ UNCHANGED <<envVars, ACTIVE_MODEL, overwritten, sessionVars>>

\* call_groq_api has returned to translate_to_english, which returns
TranslateReturn ==
  /\ pc = "translate"
  /\ returned
  /\ english_translation' = call_result
  /\ confidence' = Confidence(call_result)
  /\ pc' = "translated"
  /\ UNCHANGED <<envVars, ACTIVE_MODEL, overwritten, callVars, user_input, lang_code,
                 lang_name, support_response, sessionVars>>

\* generate_support_response(english_query) is called
GenerateCall(english_query) ==
  /\ pc \in {"idle", "translated", "generated", "raised"}
  /\ LocalsGone
  /\ EnterCall(SupportPayload(ACTIVE_MODEL, english_query))
  /\ pc' = "generate"
  /\ UNCHANGED <<envVars, ACTIVE_MODEL, overwritten, sessionVars>>

\* call_groq_api has returned to generate_support_response, which returns
GenerateReturn ==
  /\ pc = "generate"
  /\ returned
  /\ support_response' = call_result
  /\ pc' = "generated"
  /\ UNCHANGED <<envVars, ACTIVE_MODEL, overwritten, callVars, user_input, lang_code,
                 lang_name, english_translation, confidence, sessionVars>>

\* process_query(text), to its first remote call: the language is detected (ld is
\* what langdetect does), and the text translated at once when it is English; the
\* command loop has dropped what the query before returned
ProcessQuery(text, ld) ==
  /\ pc \in {"idle", "processed", "raised"}
  /\ Len(queries) < MaxQueries
  /\ start_time' = now
  /\ user_input' = text
  /\ support_response' = <<>>
  /\ LET code == detect_language(text, ld)
     IN /\ lang_code' = code
        /\ lang_name' = LanguageName(code)
        /\ IF code = EN
           THEN /\ english_translation' = strip(text)
                /\ confidence' = 100
                /\ EnterCall(SupportPayload(ACTIVE_MODEL, strip(text)))
                /\ pc' = "q_generate"
           ELSE /\ english_translation' = <<>>
                /\ confidence' = 0
                /\ EnterCall(TranslationPayload(ACTIVE_MODEL, LanguageName(code), text))
                /\ pc' = "q_translate"
  /\ summary' = NoSummary
  /\ last_return' = NoReturn
  /\ UNCHANGED <<envVars, ACTIVE_MODEL, overwritten, now, queries>>

\* process_query, from the return of the translation call to the reply call
ProcessTranslated ==
  /\ pc = "q_translate"
  /\ returned
  /\ english_translation' = call_result
  /\ confidence' = Confidence(call_result)
  /\ EnterCall(SupportPayload(ACTIVE_MODEL, call_result))
  /\ pc' = "q_generate"
  /\ UNCHANGED <<envVars, ACTIVE_MODEL, overwritten, user_input, lang_code, lang_name,
                 support_response, sessionVars>>

\* process_query, from the return of the reply call to its own: the clock is
\* read for the response time, elapsed seconds into the query, and read again by
\* log_query for the record's timestamp, logged seconds later; the result is
\* returned and the locals are gone
ProcessRespond(elapsed, logged) ==
  /\ pc = "q_generate"
  /\ returned
  /\ now' = now + elapsed + logged
  /\ queries' = log_query(queries, now + elapsed + logged, lang_name, user_input,
                          english_translation, confidence, (now + elapsed) - start_time)
  /\ last_return' = [original |-> user_input, language |-> lang_name,
                     english |-> english_translation, confidence |-> confidence,
                     response |-> call_result, time |-> (now + elapsed) - start_time]
  /\ EnterCall(NoPayload)
  /\ LocalsGone
  /\ pc' = "processed"
  /\ UNCHANGED <<envVars, ACTIVE_MODEL, overwritten, start_time, summary>>

\* metrics.show_summary()
ShowSummary ==
  /\ pc \in {"idle", "processed", "raised"}
  /\ summary' = show_summary(queries, now)
  /\ UNCHANGED <<pc, envVars, ACTIVE_MODEL, overwritten, callVars, queryVars,
                 start_time, now, queries, last_return>>

\* the clock runs on for d seconds while the command loop waits for a line
Wait(d) ==
  /\ pc \in {"idle", "processed", "raised"}
  /\ now + d <= MaxClock
  /\ now' = now + d
  /\ UNCHANGED <<pc, envVars, ACTIVE_MODEL, overwritten, callVars, queryVars,
                 start_time, queries, summary, last_return>>

\* detect_language(user_input), on its own
DetectLanguage(ld) ==
  /\ pc = "detect"
  /\ lang_code' = detect_language(user_input, ld)
  /\ lang_name' = LanguageName(detect_language(user_input, ld))
  /\ pc' = "detected"
  /\ UNCHANGED <<envVars, ACTIVE_MODEL, overwritten, callVars, user_input,
                 english_translation, confidence, support_response, sessionVars>>

(***************************************************************************)
(* The specifications.                                                     *)
(***************************************************************************)
\* a session: startup, then queries through the pipeline, summaries and waits
Init == Boot(SessionProbes, SessionJsonDecodeErrors)

Next ==
  \/ GetActiveModel
  \/ \E text \in SessionTexts, ld \in SessionLangDetect : ProcessQuery(text, ld)
  \/ \E resp \in SessionResponses : Attempt(resp)
  \/ ProcessTranslated
  \/ \E elapsed \in Latencies, logged \in LogDelays : ProcessRespond(elapsed, logged)
  \/ ShowSummary
  \/ \E d \in IdleTimes : Wait(d)

Spec == Init /\ [][Next]_vars

\* the client: startup, then translations and replies in any order, each call
\* meeting any responses
InitClient == Boot(ClientProbes, JsonDecodeErrorClasses)

NextClient ==
  \/ GetActiveModel
  \/ \E text \in ClientTexts, code \in ClientCodes : TranslateCall(text, code)
  \/ \E english_query \in ClientQueries : GenerateCall(english_query)
  \/ \E resp \in ClientResponses : Attempt(resp)
  \/ TranslateReturn
  \/ GenerateReturn

SpecClient == InitClient /\ [][NextClient]_vars

\* startup alone, meeting anything
InitProbe == Boot(Probes, JsonDecodeErrorClasses)

NextProbe == GetActiveModel

SpecProbe == InitProbe /\ [][NextProbe]_vars

\* detect_language alone, on every text of the bounds
InitDetect ==
  /\ pc = "detect"
  /\ user_input \in DetectTexts
  /\ probe = [kind |-> "exception", status |-> 0, available |-> {}]
  /\ json_decode_error \in JsonDecodeErrorClasses
  /\ ACTIVE_MODEL = "unset"
  /\ overwritten = FALSE
  /\ payload = NoPayload
  /\ attempt = 0
  /\ requests = <<>>
  /\ responses = <<>>
  /\ returned = FALSE
  /\ call_result = <<>>
  /\ raised = ""
  /\ lang_code = <<>>
  /\ lang_name = <<>>
  /\ english_translation = <<>>
  /\ confidence = 0
  /\ support_response = <<>>
  /\ start_time = 0
  /\ now = 0
  /\ queries = <<>>
  /\ summary = NoSummary
  /\ last_return = NoReturn

NextDetect == \E ld \in LangDetectOutcomes : DetectLanguage(ld)

SpecDetect == InitDetect /\ [][NextDetect]_vars


(***************************************************************************)
(* The properties.                                                         *)
(***************************************************************************)
Last(s) == s[Len(s)]

\* a 400 whose error message contains "decommissioned"
IsDecommissioned400(r) ==
  r.kind = "http" /\ r.status = 400 /\ r.body = "error"
    /\ Contains(r.message, DECOMMISSIONED)

\* a 400 whose error message contains "decommissioned" or "not found"
IsRejection400(r) ==
  r.kind = "http" /\ r.status = 400 /\ r.body = "error"
    /\ (Contains(r.message, DECOMMISSIONED) \/ Contains(r.message, NOT_FOUND))

\* a response with a status other than 200 that is no such 400
IsOtherNon200(r) == r.kind = "http" /\ r.status # 200 /\ ~IsRejection400(r)

IsTransportFailure(r) == r.kind = "transport"

\* this step is an iteration of the loop of call_groq_api
IsAttempt == Len(responses') = Len(responses) + 1

\* ... that met a decommissioned/not-found 400
MetRejection == IsAttempt /\ IsRejection400(Last(responses'))

\* ... that met another status than 200 which is no such 400
MetOtherNon200 == IsAttempt /\ IsOtherNon200(Last(responses'))

\* C1, as claimed: whenever a call receives a 400 whose message contains
\* "decommissioned", on whichever of its three attempts, ACTIVE_MODEL is the first
\* fallback and the call posts a retry carrying the first fallback.
C1_RetryAfterEveryRejection ==
  \A i \in 1..Len(responses) :
    IsDecommissioned400(responses[i]) =>
      /\ ACTIVE_MODEL = FALLBACK_MODELS[1]
      /\ returned => (Len(requests) > i /\ requests[i + 1].model = FALLBACK_MODELS[1])

\* C1, amended: whenever a call receives a 400 whose message contains
\* "decommissioned", ACTIVE_MODEL is the first fallback; on the first or second
\* attempt the call goes on, and its next request (one request) carries the first
\* fallback, whatever was and is received; on the third attempt no retry is posted
\* and the call returns "API Error: Failed after retries" after three requests.
C1_RetryWithinAttemptBudget ==
  \A i \in 1..Len(responses) :
    IsDecommissioned400(responses[i]) =>
      /\ ACTIVE_MODEL = FALLBACK_MODELS[1]
      /\ (i < 3 /\ Len(requests) = i) =>
           (~returned /\ payload.model = FALLBACK_MODELS[1])
      /\ (i < 3 /\ Len(requests) > i) => requests[i + 1].model = FALLBACK_MODELS[1]
      /\ i = 3 => (returned /\ call_result = RETRIES_EXHAUSTED /\ Len(requests) = 3)

\* C1, witness: a call that started under the preferred model was rejected twice
\* and posted the first fallback twice.
C1_Witness ==
  /\ Len(responses) = 3
  /\ IsDecommissioned400(responses[1])
  /\ IsDecommissioned400(responses[2])
  /\ requests[1].model = MODEL
  /\ requests[2].model = FALLBACK_MODELS[1]
  /\ requests[3].model = FALLBACK_MODELS[1]
  /\ ACTIVE_MODEL = FALLBACK_MODELS[1]

\* the first fallback the listing holds, the first fallback of all when it holds none
FirstFallbackIn(available) ==
  IF \A i \in 1..3 : FALLBACK_MODELS[i] \notin available THEN FALLBACK_MODELS[1]
  ELSE FALLBACK_MODELS[CHOOSE i \in 1..3 :
         /\ FALLBACK_MODELS[i] \in available
         /\ \A j \in 1..(i - 1) : FALLBACK_MODELS[j] \notin available]

\* C2, as claimed: startup selects the preferred model only when the listing
\* request succeeds with status 200 and lists it; on a transport failure, a status
\* other than 200 or a listing without it, the first fallback the listing holds, and
\* the first fallback when it holds none or the probe failed.
C2_PreferredOnlyWhenListed ==
  pc = "idle" =>
    ACTIVE_MODEL =
      IF probe.kind = "response" /\ probe.status = 200 /\ MODEL \in probe.available
      THEN MODEL
      ELSE IF probe.kind = "response" THEN FirstFallbackIn(probe.available)
      ELSE FALLBACK_MODELS[1]

\* C2, amended: startup selects the preferred model when the listing request
\* returns a status other than 200 (whatever it lists), or returns 200 and lists
\* it; when it returns 200 without it, the first fallback the listing holds, the
\* first fallback of all when it holds none; when the request or the reading of
\* its body fails, the first fallback.
C2_PreferredAlsoOnNon200 ==
  pc = "idle" =>
    /\ (probe.kind = "response" /\ probe.status # 200) => ACTIVE_MODEL = MODEL
    /\ (probe.kind = "response" /\ probe.status = 200 /\ MODEL \in probe.available)
         => ACTIVE_MODEL = MODEL
    /\ (probe.kind = "response" /\ probe.status = 200 /\ MODEL \notin probe.available)
         => ACTIVE_MODEL = FirstFallbackIn(probe.available)
    /\ probe.kind = "exception" => ACTIVE_MODEL = FALLBACK_MODELS[1]

\* C2, witness: the listing came with status 500, naming only the second
\* fallback, and the preferred model was selected.
C2_Witness ==
  /\ pc = "idle"
  /\ probe.kind = "response"
  /\ probe.status = 500
  /\ probe.available = {FALLBACK_MODELS[2]}
  /\ ACTIVE_MODEL = MODEL

\* C3, as claimed: after startup ACTIVE_MODEL is written only by the
\* decommissioned-model branch of call_groq_api, and that branch writes it at
\* most once in a session.
C3_OverwrittenAtMostOnce ==
  [][pc # "boot" =>
       /\ ACTIVE_MODEL' # ACTIVE_MODEL => MetRejection
       /\ MetRejection => ~overwritten]_vars

\* C3, amended: after startup ACTIVE_MODEL is written only by the
\* decommissioned-model branch of call_groq_api, which writes the first fallback
\* every time it runs (it can run in every attempt of every call); so the value of
\* ACTIVE_MODEL changes at most once in a session, to the first fallback, and no
\* other operation changes it.
C3_ChangesAtMostOnce ==
  [][pc # "boot" =>
       /\ ACTIVE_MODEL' # ACTIVE_MODEL => MetRejection
       /\ MetRejection => (overwritten' /\ ACTIVE_MODEL' = FALLBACK_MODELS[1])
       /\ overwritten => ACTIVE_MODEL' = ACTIVE_MODEL]_vars

\* C3, witness: a session that started under the preferred model, whose branch
\* has run, with a query logged and a summary shown since.
C3_Witness ==
  /\ probe.kind = "response"
  /\ overwritten
  /\ ACTIVE_MODEL = FALLBACK_MODELS[1]
  /\ Len(queries) >= 1
  /\ summary.shown

\* C4: a call whose three attempts all end in a transport failure returns
\* "Network Error: " with the cause of the third, having posted three requests;
\* no call posts more than three; and a transport failure on the first or second
\* attempt does not end the call.
C4_ThreeTransportFailures ==
  /\ Len(requests) <= 3
  /\ (Len(responses) = 3 /\ \A i \in 1..3 : IsTransportFailure(responses[i])) =>
       /\ returned
       /\ call_result = NETWORK_ERROR_PREFIX \o responses[3].cause
       /\ Len(requests) = 3
  /\ (Len(responses) \in 1..2 /\ IsTransportFailure(Last(responses))) => ~returned

\* C4, witness: three transport failures, the third with another cause than the
\* first two, and the call returned the third's.
C4_Witness ==
  /\ returned
  /\ Len(responses) = 3
  /\ \A i \in 1..3 : IsTransportFailure(responses[i])
  /\ responses[1].cause = CauseTimeout
  /\ responses[2].cause = CauseTimeout
  /\ responses[3].cause = CauseRefused
  /\ call_result = NETWORK_ERROR_PREFIX \o CauseRefused

\* C5, as claimed: an attempt that receives a status other than 200 which is no
\* decommissioned/not-found 400 ends the call with "API Error: " and that status
\* and leaves ACTIVE_MODEL as it was; a call that has returned posts nothing more.
C5_OtherStatusEndsCall ==
  [][/\ MetOtherNon200 =>
          /\ returned'
          /\ call_result' = API_ERROR_PREFIX \o str(Last(responses').status)
          /\ ACTIVE_MODEL' = ACTIVE_MODEL
     /\ returned => (requests' = requests \/ requests' = <<>>)]_vars

\* this step ends a call of process_query
QueryEnds == pc \in {"q_translate", "q_generate"} /\ pc' \notin {"q_translate", "q_generate"}

\* C6, as claimed: process_query detects, then translates, then generates the
\* reply; whatever the remote calls met, it ends by returning a result, and has
\* then appended exactly one record, that of the result, after the records there
\* were; and nothing else (no other step of a query, no summary) changes the
\* records.
C6_OneRecordPerQuery ==
  [][/\ (pc # "q_translate" /\ pc' = "q_translate") =>
          /\ lang_code' # <<>>
          /\ payload'.persona = "translator"
          /\ payload'.text = user_input'
     /\ (pc # "q_generate" /\ pc' = "q_generate") =>
          /\ lang_code' # <<>>
          /\ lang_code' # EN => (pc = "q_translate" /\ returned)
          /\ payload'.persona = "support"
          /\ payload'.text = english_translation'
     /\ QueryEnds =>
          /\ pc = "q_generate" /\ returned /\ pc' = "processed"
          /\ last_return'.original = user_input
          /\ last_return'.english = english_translation
          /\ last_return'.response = call_result
          /\ queries' = Append(queries,
               [timestamp |-> now', language |-> last_return'.language,
                original |-> Prefix(last_return'.original, 100),
                translation |-> Prefix(last_return'.english, 100),
                confidence |-> last_return'.confidence,
                response_time |-> last_return'.time])
     /\ ~QueryEnds => queries' = queries]_vars

\* the confidence of a translation of this many words, before the penalty
Unpenalised(words) == IF words <= 2 THEN 80 ELSE IF words <= 5 THEN 90 ELSE 95

\* the last response the call met is a failure: a transport failure, or a status
\* other than 200
MetFailureLast ==
  /\ responses # <<>>
  /\ ~(Last(responses).kind = "http" /\ Last(responses).status = 200)

\* C7, as claimed: when the remote call of a translation from another language
\* than English fails (a status other than 200, a third transport failure, the
\* attempts used up), translate_to_english does not raise: it returns the failure
\* text of the call as the translation, with the confidence of its word count
\* less 15: below the unpenalised value and never 95.
C7_FailedTranslationPenalised ==
  /\ (payload.persona = "translator" /\ MetFailureLast) => raised = ""
  /\ (pc = "translated" /\ lang_code # EN /\ MetFailureLast) =>
       /\ english_translation = call_result
       /\ \/ Prefix(call_result, Len(API_ERROR_PREFIX)) = API_ERROR_PREFIX
          \/ Prefix(call_result, Len(NETWORK_ERROR_PREFIX)) = NETWORK_ERROR_PREFIX
       /\ confidence = Unpenalised(WordCount(english_translation)) - 15
       /\ confidence < Unpenalised(WordCount(english_translation))
       /\ confidence # 95

\* s is t without its leading and trailing whitespace
IsTrimOf(s, t) ==
  /\ s = <<>> \/ (~IsSpace(s[1]) /\ ~IsSpace(Last(s)))
  /\ \E a \in 0..Len(t) :
       /\ a + Len(s) <= Len(t)
       /\ SubSeq(t, a + 1, a + Len(s)) = s
       /\ \A i \in (1..a) \cup ((a + Len(s) + 1)..Len(t)) : IsSpace(t[i])

\* C8: for another language code than "en" the confidence of a translation is 80
\* for 0-2 words, 90 for 3-5 and 95 for 6 or more, less 15 (once, and never
\* below 60) when its lower-cased text contains "error", "failed" or "http"; for
\* "en" the translation is the trimmed input, at confidence 100, and no request
\* is posted.
C8_ConfidenceByWordCount ==
  pc = "translated" =>
    IF lang_code = EN
    THEN /\ IsTrimOf(english_translation, user_input)
         /\ confidence = 100
         /\ requests = <<>>
    ELSE LET words == WordCount(english_translation)
             marked == \E x \in {ERROR, FAILED, HTTP} :
                         Contains(lower(english_translation), x)
         IN /\ ~marked => confidence = Unpenalised(words)
            /\ marked => confidence = Unpenalised(words) - 15
            /\ confidence >= 60

\* C8, witness: a translation of six words, one of them "HTTP": 95 less 15.
C8_Witness ==
  /\ pc = "translated"
  /\ lang_code # EN
  /\ english_translation = SixWordsHttp
  /\ confidence = 80

HasCyrillic(text) == \E i \in 1..Len(text) : text[i] \in 1024..1279

HasCjk(text) == \E i \in 1..Len(text) : text[i] \in 19968..40959

HasHangul(text) == \E i \in 1..Len(text) : text[i] \in 44032..55215

HasKana(text) == \E i \in 1..Len(text) : text[i] \in 12352..12543

\* C9, as claimed: detect_language returns "ru" for every text with a Cyrillic
\* character, "zh" for every text with a CJK ideograph, "ko" for every text with a
\* Hangul syllable and "ja" for every text with a Hiragana/Katakana character,
\* each whatever else the text holds.
C9_EachScriptWins ==
  pc = "detected" =>
    /\ HasCyrillic(user_input) => lang_code = RU
    /\ HasCjk(user_input) => lang_code = ZH
    /\ HasHangul(user_input) => lang_code = KO
    /\ HasKana(user_input) => lang_code = JA

\* C9, amended: detect_language returns "ru" for every text with a character of
\* the Cyrillic block, whatever else it holds; "zh" for every text with a CJK
\* ideograph and no Cyrillic character; "ko" for every text with a Hangul
\* syllable and neither of those; "ja" for every text with a Hiragana/Katakana
\* character and none of those; each whatever else the text holds (Devanagari
\* included) and whatever langdetect does.
C9_ScriptsInPriorityOrder ==
  pc = "detected" =>
    /\ HasCyrillic(user_input) => lang_code = RU
    /\ (HasCjk(user_input) /\ ~HasCyrillic(user_input)) => lang_code = ZH
    /\ (HasHangul(user_input) /\ ~HasCyrillic(user_input) /\ ~HasCjk(user_input))
         => lang_code = KO
    /\ (HasKana(user_input) /\ ~HasCyrillic(user_input) /\ ~HasCjk(user_input)
          /\ ~HasHangul(user_input)) => lang_code = JA

\* C9, witness: a text with a CJK ideograph, a Cyrillic and a Devanagari
\* character was detected as "ru".
C9_Witness ==
  /\ pc = "detected"
  /\ user_input = <<19968, 1024, 2304>>
  /\ lang_code = RU

\* C10, as claimed: whenever a call retries after a decommissioned/not-found 400,
\* the request of the retry names another model than the rejected request did.
C10_RetryNamesAnotherModel ==
  \A i \in 1..Len(responses) :
    (IsRejection400(responses[i]) /\ Len(requests) > i) =>
      requests[i + 1].model # requests[i].model
====
